---- MODULE Spec2Model ----
(***************************************************************************)
(* Model of zeddring's RingManager (ring_manager.py), the heart-rate       *)
(* logger (hr_logger.py), the storage layer (database.py) and the          *)
(* simulated device client (scanner.py).                                   *)
(*                                                                         *)
(* Threads: the data-collection worker, the heart-rate logger worker, the  *)
(* scanner worker, and one presentation-layer thread that calls the        *)
(* manager's public methods.  Every Device Client call is an interval: an  *)
(* action starts it (the thread's pc names the call, hnd[t] the handle)    *)
(* and a later action of the same thread completes it.                     *)
(***************************************************************************)
EXTENDS Integers, Sequences, FiniteSets, Bags, TLC

(***************************************************************************)
(* Bounds of the model.                                                    *)
(***************************************************************************)
\* Device Client objects alive (referenced) at the same time.
MaxHandles == 3
\* Live rows (written by polling) of the telemetry tables.
MaxSamples == 1
\* Historical rows (written by a historical sync) of the telemetry tables.
MaxHistory == 4

(***************************************************************************)
(* Program constants.                                                      *)
(***************************************************************************)
MAX_RETRY_ATTEMPTS == 3
SCAN_INTERVAL == 20
RETRY_DELAY == 300
\* time.sleep(10) in the workers' exception handlers.
ErrorDelay == 10
PERSISTENT_CONNECTION == TRUE

\* Python's None for an integer reading.
None == -1

\* Two registered devices: one with a well-formed hardware address and one
\* whose address fails the format check.  Addresses are character sequences.
ValidMac == <<"A","A",":","B","B",":","C","C",":","D","D",":","E","E",":","F","F">>
InvalidMac == <<"m","o","c","k","-","1">>
RingIds == {1, 2}
MacOf(r) == IF r = 1 THEN ValidMac ELSE InvalidMac
Macs == {MacOf(r) : r \in RingIds}

HexDigits == {"0","1","2","3","4","5","6","7","8","9",
              "A","B","C","D","E","F","a","b","c","d","e","f"}

\* re.match(r'^([0-9A-Fa-f]{2}[:-]){5}([0-9A-Fa-f]{2})$', mac_address)
is_valid_mac(mac) ==
    /\ Len(mac) = 17
    /\ \A i \in 1..17 : IF i % 3 = 0 THEN mac[i] \in {":", "-"}
                                     ELSE mac[i] \in HexDigits

Threads == {"data", "hr", "scan", "web"}

\* Readings a device can return.
HeartRates == {None, 0, 72}
StepCounts == {None, 0, 1100}
BatteryLevels == {None, 0, 75}

VARIABLES
    running,            \* RingManager.running
    hr_running,         \* HeartRateLogger.running
    clients,            \* RingManager.clients: address -> handle (0: absent)
    connected_rings,    \* RingManager.connected_rings (its keys)
    lock,               \* RingManager.lock: the thread holding it, or "free"
    handles,            \* the Device Client objects, by handle
    colmi_available,    \* COLMI_CLIENT_AVAILABLE
    db_rings,           \* the rings table: id -> row, or NoRow
    samples,            \* heart_rate, steps and battery tables (a bag of rows)
    pc,                 \* each thread's position
    cur,                \* each thread's ring_id (0: none)
    hnd,                \* each thread's local client variable (0: None)
    todo,               \* the rest of a worker's `for ring in rings`
    ret,                \* return value of the last presentation-layer call
    connect_failures,   \* connect() calls failed in a row, per address,
                        \* counted up to MAX_RETRY_ATTEMPTS (the manager
                        \* keeps no such counter: this records the history)
    read_failed,        \* a read raised in the data worker's current
                        \* iteration for ring cur["data"] (history only)
    cooldown            \* per address: what is left of RETRY_DELAY since
                        \* the last failed attempt of an exhausted session,
                        \* by the time the data worker has slept (the
                        \* manager keeps no such timer: history only)
VARIABLES
    scan_call,          \* the locals of a scanner.scan_for_devices call
    threads,            \* the threading.Thread objects start() has created
                        \* and that have not returned: target and position
    rings_table,        \* the key columns (id, mac_address) of the rows of
                        \* the rings table, and its AUTOINCREMENT sequence
    reg_call,           \* each registering caller's position and locals
    manager             \* the RingManager object: "none" before its
                        \* construction, "constructed", or "failed" when
                        \* the constructor raised

vars == <<running, hr_running, clients, connected_rings, lock, handles,
          colmi_available, db_rings, samples, pc, cur, hnd, todo, ret,
          connect_failures, read_failed, cooldown, scan_call, threads,
          rings_table, reg_call, manager>>

\* The variables of the manager, the storage and their threads.
coreVars == <<running, hr_running, clients, connected_rings, lock, handles,
              colmi_available, db_rings, samples, pc, cur, hnd, todo, ret,
              connect_failures, read_failed, cooldown>>

regVars == <<clients, connected_rings>>
dbVars == <<db_rings, samples>>
lifeVars == <<running, hr_running>>
envVars == <<lock, colmi_available, scan_call, threads, rings_table,
            reg_call, manager>>
histVars == <<connect_failures, read_failed, cooldown>>
retryVars == <<connect_failures, cooldown>>

NoRow == [present |-> FALSE, last_connected |-> FALSE, battery_level |-> None]
NewRow == [present |-> TRUE, last_connected |-> FALSE, battery_level |-> None]

\* Return value of a presentation-facing call: "True", "False", or "none"
\* while a call is in progress and before the first call.
NoRet == "none"

(***************************************************************************)
(* Storage (database.py).                                                  *)
(***************************************************************************)
\* A lookup that finds a record under every id.
get_ring_any(r) == TRUE

\* Database.get_ring: the row, or None.
get_ring(r) == db_rings[r].present

\* Database.get_rings: SELECT * FROM rings ORDER BY name (here: by id).
RECURSIVE SeqOfSet(_)
SeqOfSet(S) ==
    IF S = {} THEN <<>>
    ELSE LET m == CHOOSE x \in S : \A y \in S : x <= y
         IN <<m>> \o SeqOfSet(S \ {m})
get_rings == SeqOfSet({r \in RingIds : db_rings[r].present})

\* Database.update_ring_connection: UPDATE ... WHERE id = ? (no row: no-op).
update_ring_connection(db, r) ==
    IF db[r].present THEN [db EXCEPT ![r].last_connected = TRUE] ELSE db

\* Database.update_ring_battery.
update_ring_battery(db, r, v) ==
    IF db[r].present
    THEN [db EXCEPT ![r].battery_level = v, ![r].last_connected = TRUE]
    ELSE db

\* A row of one of the telemetry tables.  Live samples take
\* CURRENT_TIMESTAMP, abstracted to ts = 0; historical samples carry the
\* device's own timestamp, 1 or more.
Row(r, kind, v, ts) == [ring |-> r, kind |-> kind, value |-> v, ts |-> ts]

\* Database.add_heart_rate / add_steps / add_battery: a plain INSERT.
add_sample(tbl, r, kind, v) == tbl (+) SetToBag({Row(r, kind, v, 0)})

\* Database.add_heart_rate_with_timestamp / add_steps_with_timestamp.
add_sample_with_timestamp(tbl, r, kind, v, ts) ==
    tbl (+) SetToBag({Row(r, kind, v, ts)})

\* Database.remove_ring: delete the ring's samples and its row.
RowsOf(tbl, r) == {x \in BagToSet(tbl) : x.ring = r}
db_remove_samples(tbl, r) ==
    [x \in BagToSet(tbl) \ RowsOf(tbl, r) |-> tbl[x]]
db_remove_ring(db, r) == [db EXCEPT ![r] = NoRow]

SampleCount == BagCardinality(samples)
LiveRows == {x \in BagToSet(samples) : x.ts = 0}
HistoryRows == BagToSet(samples) \ LiveRows
RECURSIVE CountOf(_, _)
CountOf(tbl, S) ==
    IF S = {} THEN 0
    ELSE LET x == CHOOSE y \in S : TRUE IN tbl[x] + CountOf(tbl, S \ {x})
\* The model stops polling writes at MaxSamples live rows.
CanWrite(n) == CountOf(samples, LiveRows) + n <= MaxSamples

(***************************************************************************)
(* Device Client objects.                                                  *)
(***************************************************************************)
\* MockColmiR02Client(address) / ColmiClient(address).  history_read
\* records that get_historical_data() has completed on the object.
NewHandle(mac, kind) ==
    [mac |-> mac, kind |-> kind, connected |-> FALSE, history_read |-> FALSE]
FreeHandle ==
    [mac |-> <<>>, kind |-> "none", connected |-> FALSE, history_read |-> FALSE]
HandleIds == 1..MaxHandles
FreeSlots == {i \in HandleIds : handles[i].kind = "none"}
CanCreate == FreeSlots # {}
NextHandle == CHOOSE i \in FreeSlots : \A j \in FreeSlots : i <= j

\* An object that neither the registry nor a thread references is gone.
Collect(H, C, L) ==
    [i \in HandleIds |->
        IF (\E m \in Macs : C[m] = i) \/ (\E t \in Threads : L[t] = i)
        THEN H[i] ELSE FreeHandle]

\* A device call is in flight on the thread's handle at these positions.
ConnectPcs == {"connect", "w_connect", "ws_connect", "cg_connect"}
CallPcs == ConnectPcs \cup
    {"stale_disc", "set_time", "hr", "steps", "battery", "err_disc",
     "h_hr", "h_steps", "h_battery", "w_disc", "w_rm_disc", "w_sync",
     "cg_battery", "cg_steps", "cg_hr", "cg_disc", "w_reboot"}
InCall(t) == pc[t] \in CallPcs

\* `mac_address in self.clients`
InRegistry(mac) == clients[mac] # 0

\* The thread objects of the manager's workers.
MaxThreads == 4
ThreadIds == 1..MaxThreads
NoThread == [target |-> "none", pc |-> "none"]

\* The callers that register devices: the scanner worker and the
\* presentation layer.  known is the id the address had in the table when
\* the call began (0: none), result the id returned (0: none yet).
Registrars == {"scan", "web"}
NoReg == [pc |-> "idle", op |-> "none", mac |-> <<>>, known |-> 0, result |-> 0]

\* The locals of scan_for_devices before a call: no strategy has run.
NoScan ==
    [pc |-> "idle", ran |-> <<>>, failed |-> {},
     bleak_devices |-> <<>>, hcitool_devices |-> <<>>,
     bluetoothctl_devices |-> <<>>, all_devices |-> <<>>,
     colmi_devices |-> <<>>]

(***************************************************************************)
(* Initial state: the manager and the logger constructed, not started; the *)
(* storage holds both device records.  InitWith("none") is the state       *)
(* before RingManager's constructor has run.                               *)
(***************************************************************************)
InitWith(state) ==
    /\ running = FALSE
    /\ hr_running = FALSE
    /\ clients = [m \in Macs |-> 0]
    /\ connected_rings = {}
    /\ lock = "free"
    /\ handles = [i \in HandleIds |-> FreeHandle]
    /\ colmi_available \in BOOLEAN
    /\ db_rings = [r \in RingIds |-> NewRow]
    /\ samples = EmptyBag
    /\ pc = [t \in Threads |-> IF t = "web" THEN "idle" ELSE "off"]
    /\ cur = [t \in Threads |-> 0]
    /\ hnd = [t \in Threads |-> 0]
    /\ todo = [t \in {"data", "hr", "scan"} |-> <<>>]
    /\ ret = NoRet
    /\ connect_failures = [m \in Macs |-> 0]
    /\ read_failed = FALSE
    /\ cooldown = [m \in Macs |-> 0]
    /\ scan_call = NoScan
    /\ threads = [i \in ThreadIds |-> NoThread]
    /\ rings_table = [rows |-> {[id |-> r, mac_address |-> MacOf(r)] :
                                   r \in RingIds},
                      seq |-> Cardinality(RingIds)]
    /\ reg_call = [t \in Registrars |-> NoReg]
    /\ manager = state

Init == InitWith("constructed")

\* The Database class defines neither update_last_sync nor
\* update_ring_disconnection: calling them raises AttributeError.
db_has_update_last_sync == FALSE
db_has_update_ring_disconnection == FALSE

(***************************************************************************)
(* Helpers on the threads' local state.                                    *)
(***************************************************************************)
Goto(t, p) == pc' = [pc EXCEPT ![t] = p]
SetLocal(t, r, h) ==
    /\ cur' = [cur EXCEPT ![t] = r]
    /\ hnd' = [hnd EXCEPT ![t] = h]
SetHnd(t, h) == hnd' = [hnd EXCEPT ![t] = h]

\* handles' when the action changes no client object.
KeepHandles == handles' = Collect(handles, clients', hnd')

Min(a, b) == IF a <= b THEN a ELSE b

\* Truthiness tests of the polling code.
\* `if heart_rate and heart_rate > 0` / `if steps and steps > 0`
KeepReading(v) == v # None /\ v # 0 /\ v > 0
\* `if battery is not None`
KeepBattery(v) == v # None

(***************************************************************************)
(* Lifecycle (RingManager.start/stop, HeartRateLogger.start/stop), called  *)
(* once each by app.main.                                                  *)
(***************************************************************************)
\* RingManager.start: sets running and starts the two workers.
Start ==
    /\ manager = "constructed"
    /\ ~running
    /\ pc["data"] = "off" /\ pc["scan"] = "off"
    /\ running' = TRUE
    /\ pc' = [pc EXCEPT !["data"] = "loop", !["scan"] = "loop"]
    /\ UNCHANGED <<hr_running, regVars, envVars, handles, dbVars, cur, hnd,
                   todo, ret, histVars>>

\* HeartRateLogger.start.
HrStart ==
    /\ ~hr_running
    /\ pc["hr"] = "off"
    /\ hr_running' = TRUE
    /\ Goto("hr", "loop")
    /\ UNCHANGED <<running, regVars, envVars, handles, dbVars, cur, hnd,
                   todo, ret, histVars>>

\* RingManager.stop: clears the flag, and nothing else.
Stop ==
    /\ running
    /\ running' = FALSE
    /\ UNCHANGED <<hr_running, regVars, envVars, handles, dbVars, pc, cur,
                   hnd, todo, ret, histVars>>

\* HeartRateLogger.stop.
HrStop ==
    /\ hr_running
    /\ hr_running' = FALSE
    /\ UNCHANGED <<running, regVars, envVars, handles, dbVars, pc, cur, hnd,
                   todo, ret, histVars>>

(***************************************************************************)
(* Effects shared by the connection paths.                                 *)
(***************************************************************************)
\* The history of attempts on address mac after one that succeeded.
AttemptSucceeded(mac) ==
    /\ connect_failures' = [connect_failures EXCEPT ![mac] = 0]
    /\ cooldown' = [cooldown EXCEPT ![mac] = 0]

\* The history after an attempt that failed: with MAX_RETRY_ATTEMPTS
\* failures in a row the retries are exhausted and, for an address that no
\* registered client serves, RETRY_DELAY starts anew.
AttemptFailed(mac) ==
    /\ connect_failures' =
          [connect_failures EXCEPT ![mac] = Min(@ + 1, MAX_RETRY_ATTEMPTS)]
    /\ cooldown' =
          [cooldown EXCEPT
              ![mac] = IF /\ connect_failures[mac] + 1 >= MAX_RETRY_ATTEMPTS
                          /\ ~InRegistry(mac)
                       THEN RETRY_DELAY ELSE @]

\* An attempt on an exhausted session that ends before connect() is called
\* (no ColmiClient, or its constructor raises): RETRY_DELAY starts anew.
AttemptDropped(mac) ==
    cooldown' =
        [cooldown EXCEPT
            ![mac] = IF /\ connect_failures[mac] >= MAX_RETRY_ATTEMPTS
                        /\ ~InRegistry(mac)
                     THEN RETRY_DELAY ELSE @]

\* time.sleep(d) in the data-collection worker.
Slept(d) ==
    cooldown' = [m \in Macs |-> IF cooldown[m] > d THEN cooldown[m] - d ELSE 0]

\* A connect() call on handle h of address mac returned True and the caller
\* stored the client: self.clients[mac] = client, connected_rings[mac] =
\* True, db.update_ring_connection(ring_id).
StoreClient(mac, r, h) ==
    /\ clients' = [clients EXCEPT ![mac] = h]
    /\ connected_rings' = connected_rings \cup {mac}
    /\ db_rings' = update_ring_connection(db_rings, r)
    /\ AttemptSucceeded(mac)
    /\ UNCHANGED read_failed

\* A connect() call returned False or raised: nothing is stored.
ConnectFailed(mac) ==
    /\ AttemptFailed(mac)
    /\ UNCHANGED <<regVars, db_rings>>
    /\ UNCHANGED read_failed

\* The client object after connect() returned True.
Linked(H, h) == [H EXCEPT ![h].connected = TRUE]

\* The client object after disconnect() completed: it returned, or it
\* raised and the link state is left as it was.
Unlinked(H, h, ok) == IF ok THEN [H EXCEPT ![h].connected = FALSE] ELSE H

\* Outcomes of a connect() call: MockColmiR02Client.connect returns True.
ConnectOutcomes(h) ==
    IF handles[h].kind = "mock" THEN {TRUE} ELSE BOOLEAN

\* Outcomes of a disconnect() call (TRUE: it returned, FALSE: it raised):
\* MockColmiR02Client.disconnect always returns.
DisconnectOutcomes(h) ==
    IF handles[h].kind = "mock" THEN {TRUE} ELSE BOOLEAN

(***************************************************************************)
(* The data-collection worker (RingManager._data_collection_loop).         *)
(***************************************************************************)
\* A data-collection loop that does not test the flag: `while True:`.
D_LoopForever ==
    /\ pc["data"] = "loop"
    /\ todo' = [todo EXCEPT !["data"] = get_rings]
    /\ Goto("data", "next")
    /\ SetLocal("data", 0, 0)
    /\ UNCHANGED <<lifeVars, regVars, envVars, dbVars, ret, histVars>>
    /\ KeepHandles

\* `while self.running:` and `rings = self.db.get_rings()`.
D_Loop ==
    /\ pc["data"] = "loop"
    /\ IF running
       THEN /\ todo' = [todo EXCEPT !["data"] = get_rings]
            /\ Goto("data", "next")
       ELSE /\ todo' = [todo EXCEPT !["data"] = <<>>]
            /\ Goto("data", "done")
    /\ SetLocal("data", 0, 0)
    /\ UNCHANGED <<lifeVars, regVars, envVars, dbVars, ret, histVars>>
    /\ KeepHandles

\* Lines 431-433: the worker attempts a connection for every ring that is
\* not in the registry.
EligibleForConnect(mac) == ~InRegistry(mac) /\ PERSISTENT_CONNECTION

\* `for ring in rings:` and the test `if mac_address not in self.clients`.
\* After the last ring: time.sleep(SCAN_INTERVAL), back to the loop test.
D_Next ==
    /\ pc["data"] = "next"
    /\ IF todo["data"] = <<>>
       THEN /\ Goto("data", "loop")
            /\ SetLocal("data", 0, 0)
            /\ Slept(SCAN_INTERVAL)          \* line 501
            /\ UNCHANGED todo
       ELSE LET r == Head(todo["data"]) IN
            /\ todo' = [todo EXCEPT !["data"] = Tail(@)]
            /\ SetLocal("data", r, 0)
            /\ IF EligibleForConnect(MacOf(r))
               THEN Goto("data", "ctr")
               ELSE Goto("data", "chk")
            /\ UNCHANGED cooldown
    /\ read_failed' = FALSE
    /\ UNCHANGED <<lifeVars, regVars, envVars, dbVars, ret, connect_failures>>
    /\ KeepHandles

\* hasattr(client, 'connected') and client.connected: the simulated client
\* has the attribute; whether the real client has it is not fixed.
SeemsConnected(h) ==
    IF handles[h].kind = "mock" THEN {handles[h].connected} ELSE BOOLEAN

\* _connect_to_ring, lines 511-529: look the ring up, then the
\* "already connected" test on the registry.
D_CtrEnter ==
    /\ pc["data"] = "ctr"
    /\ LET r == cur["data"]
           mac == MacOf(r) IN
       IF ~get_ring(r)
       THEN \* ring not found in database: return False
            /\ Goto("data", "chk")
            /\ UNCHANGED hnd
       ELSE IF InRegistry(mac)
       THEN \E c \in SeemsConnected(clients[mac]) :
               IF c
               THEN \* already connected: return True
                    /\ Goto("data", "post")
                    /\ UNCHANGED hnd
               ELSE \* no longer valid: disconnect it, then reconnect
                    /\ SetHnd("data", clients[mac])
                    /\ Goto("data", "stale_disc")
       ELSE /\ Goto("data", "ctr2")
            /\ UNCHANGED hnd
    /\ UNCHANGED <<lifeVars, regVars, envVars, dbVars, cur, todo, ret,
                   histVars>>
    /\ KeepHandles

\* _connect_to_ring, lines 530-543: client.disconnect() on the stale client
\* completes, then `del self.clients[mac_address]`.  If another thread has
\* removed the entry meanwhile the del raises KeyError and the function
\* returns False.
D_StaleDisc ==
    /\ pc["data"] = "stale_disc"
    /\ SetHnd("data", 0)
    /\ LET mac == MacOf(cur["data"])
           h == hnd["data"] IN
       \E ok \in DisconnectOutcomes(h) :
          /\ IF InRegistry(mac)
             THEN /\ clients' = [clients EXCEPT ![mac] = 0]
                  /\ connected_rings' = connected_rings \ {mac}
                  /\ Goto("data", "ctr2")
             ELSE /\ UNCHANGED regVars
                  /\ Goto("data", "chk")
          /\ handles' = Collect(Unlinked(handles, h, ok), clients', hnd')
    /\ UNCHANGED <<lifeVars, envVars, dbVars, cur, todo, ret,
                   histVars>>

\* Line 518: ring_info['is_mock'] if 'is_mock' in ring_info.keys() else 0.
\* The rings table (database.py, lines 38-48) has no is_mock column and no
\* statement of the program adds or writes one, so every row reads as 0.
is_mock(r) == FALSE

\* _connect_to_ring, lines 545-589: choose the client class, construct the
\* client and start its connect() call.
D_CtrClient ==
    /\ pc["data"] = "ctr2"
    /\ LET mac == MacOf(cur["data"]) IN
       IF ~is_valid_mac(mac) \/ is_mock(cur["data"])
       THEN /\ CanCreate
            /\ SetHnd("data", NextHandle)
            /\ handles' = [handles EXCEPT ![NextHandle] = NewHandle(mac, "mock")]
            /\ Goto("data", "connect")
            /\ UNCHANGED cooldown
       ELSE IF ~colmi_available
       THEN \* ColmiClient not available: return False
            /\ Goto("data", "chk")
            /\ AttemptDropped(mac)
            /\ UNCHANGED <<handles, hnd>>
       ELSE \/ \* ColmiClient(mac_address) raises: return False
               /\ Goto("data", "chk")
               /\ AttemptDropped(mac)
               /\ UNCHANGED <<handles, hnd>>
            \/ /\ CanCreate
               /\ SetHnd("data", NextHandle)
               /\ handles' = [handles EXCEPT ![NextHandle] = NewHandle(mac, "real")]
               /\ Goto("data", "connect")
               /\ UNCHANGED cooldown
    /\ UNCHANGED <<lifeVars, regVars, envVars, dbVars, cur, todo, ret,
                   connect_failures, read_failed>>

\* _connect_to_ring, lines 556-567 and 589-604: the connect() call
\* completes; on success the client is stored.
D_ConnectEnd ==
    /\ pc["data"] = "connect"
    /\ SetHnd("data", 0)
    /\ LET r == cur["data"]
           mac == MacOf(r)
           h == hnd["data"] IN
       \E ok \in ConnectOutcomes(h) :
          IF ok
          THEN /\ StoreClient(mac, r, h)
               /\ Goto("data", "post")
               /\ handles' = Collect(Linked(handles, h), clients', hnd')
          ELSE /\ ConnectFailed(mac)
               /\ Goto("data", "chk")
               /\ KeepHandles
    /\ UNCHANGED <<lifeVars, envVars, samples, cur, todo, ret>>

\* A handler that ends the worker instead of going on.
D_AbortFatal ==
    /\ Goto("data", "done")
    /\ todo' = [todo EXCEPT !["data"] = <<>>]
    /\ SetLocal("data", 0, 0)
    /\ Slept(ErrorDelay)

\* The worker's `except Exception` around the whole iteration (line 503):
\* the rest of the ring list is dropped, sleep, back to the loop test.
D_Abort ==
    /\ Goto("data", "loop")
    /\ todo' = [todo EXCEPT !["data"] = <<>>]
    /\ SetLocal("data", 0, 0)
    /\ Slept(ErrorDelay)                     \* line 505

\* Line 424: `rings = self.db.get_rings()` raises, the storage having
\* failed, into the handler at line 503.
D_StorageFailure ==
    /\ pc["data"] = "loop"
    /\ running
    /\ D_Abort
    /\ UNCHANGED <<lifeVars, regVars, envVars, dbVars, ret, connect_failures,
                   read_failed>>
    /\ KeepHandles

\* Lines 436-441 after _connect_to_ring returned True:
\* self.clients[mac_address].set_ring_time().  The registry holds device
\* clients; the simulated client has no set_ring_time (AttributeError), a
\* missing entry raises KeyError; for the real client the attribute may or
\* may not exist.
D_Post ==
    /\ pc["data"] = "post"
    /\ LET mac == MacOf(cur["data"]) IN
       IF InRegistry(mac) /\ handles[clients[mac]].kind = "real"
       THEN \/ D_Abort
            \/ /\ SetHnd("data", clients[mac])
               /\ Goto("data", "set_time")
               /\ UNCHANGED <<cur, todo, cooldown>>
       ELSE D_Abort
    /\ UNCHANGED <<lifeVars, regVars, envVars, dbVars, ret, connect_failures,
                   read_failed>>
    /\ KeepHandles

\* The set_ring_time() call completes: it returns, or raises and the
\* iteration is abandoned.
D_SetTimeEnd ==
    /\ pc["data"] = "set_time"
    /\ \/ /\ Goto("data", "chk")
          /\ SetHnd("data", 0)
          /\ UNCHANGED <<cur, todo, cooldown>>
       \/ D_Abort
    /\ UNCHANGED <<lifeVars, regVars, envVars, dbVars, ret, connect_failures,
                   read_failed>>
    /\ KeepHandles

\* Lines 444-451: `if mac_address in self.clients:` then a new event loop
\* and client = self.clients[mac_address].  asyncio.new_event_loop() can
\* raise (OSError), which is the one way into the handler at line 484.
D_Chk ==
    /\ pc["data"] = "chk"
    /\ LET mac == MacOf(cur["data"]) IN
       IF InRegistry(mac)
       THEN \/ /\ SetHnd("data", clients[mac])
               /\ Goto("data", "hr")
            \/ /\ SetHnd("data", 0)
               /\ Goto("data", "err")
       ELSE /\ SetHnd("data", 0)
            /\ Goto("data", "next")
    /\ UNCHANGED <<lifeVars, regVars, envVars, dbVars, cur, todo, ret,
                   histVars>>
    /\ KeepHandles

\* Lines 453-460: get_heart_rate() completes with a value or raises; the
\* inner handler logs the error and the iteration goes on.
D_Hr ==
    /\ pc["data"] = "hr"
    /\ \/ /\ \E v \in HeartRates :
               IF KeepReading(v)
               THEN /\ CanWrite(1)
                    /\ samples' = add_sample(samples, cur["data"], "heart_rate", v)
               ELSE UNCHANGED samples
          /\ UNCHANGED read_failed
       \/ /\ UNCHANGED samples      \* the call raised
          /\ read_failed' = TRUE
    /\ Goto("data", "steps")
    /\ UNCHANGED <<lifeVars, regVars, envVars, handles, db_rings, cur, hnd,
                   todo, ret, retryVars>>

\* Lines 462-469: get_steps().
D_Steps ==
    /\ pc["data"] = "steps"
    /\ \/ /\ \E v \in StepCounts :
               IF KeepReading(v)
               THEN /\ CanWrite(1)
                    /\ samples' = add_sample(samples, cur["data"], "steps", v)
               ELSE UNCHANGED samples
          /\ UNCHANGED read_failed
       \/ /\ UNCHANGED samples      \* the call raised
          /\ read_failed' = TRUE
    /\ Goto("data", "battery")
    /\ UNCHANGED <<lifeVars, regVars, envVars, handles, db_rings, cur, hnd,
                   todo, ret, retryVars>>

\* Lines 471-482: get_battery(), add_battery and update_ring_battery, then
\* loop.close() and the next ring.
D_Battery ==
    /\ pc["data"] = "battery"
    /\ \/ /\ \E v \in BatteryLevels :
               IF KeepBattery(v)
               THEN /\ CanWrite(1)
                    /\ samples' = add_sample(samples, cur["data"], "battery", v)
                    /\ db_rings' = update_ring_battery(db_rings, cur["data"], v)
               ELSE UNCHANGED dbVars
          /\ UNCHANGED read_failed
       \/ /\ UNCHANGED dbVars       \* the call raised
          /\ read_failed' = TRUE
    /\ Goto("data", "next")
    /\ SetHnd("data", 0)
    /\ UNCHANGED <<lifeVars, regVars, envVars, cur, todo, ret,
                   retryVars>>
    /\ KeepHandles

\* Lines 484-492, the outer handler: `if mac_address in self.clients:`
\* start disconnect() on the registered client.
D_Err ==
    /\ pc["data"] = "err"
    /\ LET mac == MacOf(cur["data"]) IN
       IF InRegistry(mac)
       THEN /\ SetHnd("data", clients[mac])
            /\ Goto("data", "err_disc")
       ELSE /\ UNCHANGED hnd
            /\ Goto("data", "next")
    /\ UNCHANGED <<lifeVars, regVars, envVars, dbVars, cur, todo, ret,
                   histVars>>
    /\ KeepHandles

\* Lines 492-498: disconnect() completes (or raises); finally the entry is
\* deleted if it is still there.
D_ErrDisc ==
    /\ pc["data"] = "err_disc"
    /\ SetHnd("data", 0)
    /\ clients' = [clients EXCEPT ![MacOf(cur["data"])] = 0]
    /\ \E ok \in DisconnectOutcomes(hnd["data"]) :
          handles' = Collect(Unlinked(handles, hnd["data"], ok), clients', hnd')
    /\ Goto("data", "next")
    /\ UNCHANGED <<lifeVars, connected_rings, envVars, dbVars, cur, todo,
                   ret, histVars>>

DataWorker ==
    \/ D_Loop \/ D_Next \/ D_CtrEnter \/ D_StaleDisc \/ D_CtrClient
    \/ D_ConnectEnd \/ D_Post \/ D_SetTimeEnd \/ D_Chk \/ D_Hr \/ D_Steps
    \/ D_Battery \/ D_Err \/ D_ErrDisc

(***************************************************************************)
(* The heart-rate logger worker (HeartRateLogger._logger_loop).            *)
(***************************************************************************)
\* `while self.running:` and `rings = self.db.get_rings()`.
H_Loop ==
    /\ pc["hr"] = "loop"
    /\ IF hr_running
       THEN /\ todo' = [todo EXCEPT !["hr"] = get_rings]
            /\ Goto("hr", "next")
       ELSE /\ todo' = [todo EXCEPT !["hr"] = <<>>]
            /\ Goto("hr", "done")
    /\ SetLocal("hr", 0, 0)
    /\ UNCHANGED <<lifeVars, regVars, envVars, dbVars, ret, histVars>>
    /\ KeepHandles

\* `for ring in rings:` with get_ring_data(ring['id']) (no record: {} and
\* the ring is skipped), the two membership tests and
\* client = self.ring_manager.clients[mac_address].
\* After the last ring: time.sleep(self.interval).
H_Next ==
    /\ pc["hr"] = "next"
    /\ IF todo["hr"] = <<>>
       THEN /\ Goto("hr", "loop")
            /\ SetLocal("hr", 0, 0)
            /\ UNCHANGED todo
       ELSE LET r == Head(todo["hr"]) IN
            /\ todo' = [todo EXCEPT !["hr"] = Tail(@)]
            /\ IF get_ring(r) /\ InRegistry(MacOf(r))
               THEN /\ SetLocal("hr", r, clients[MacOf(r)])
                    /\ Goto("hr", "h_hr")
               ELSE /\ SetLocal("hr", 0, 0)
                    /\ Goto("hr", "next")
    /\ UNCHANGED <<lifeVars, regVars, envVars, dbVars, ret, histVars>>
    /\ KeepHandles

\* Lines 76-83: client.get_heart_rate() completes.
H_Hr ==
    /\ pc["hr"] = "h_hr"
    /\ \/ \E v \in HeartRates :
            IF KeepReading(v)
            THEN /\ CanWrite(1)
                 /\ samples' = add_sample(samples, cur["hr"], "heart_rate", v)
            ELSE UNCHANGED samples
       \/ UNCHANGED samples      \* the call raised
    /\ Goto("hr", "h_steps")
    /\ UNCHANGED <<lifeVars, regVars, envVars, handles, db_rings, cur, hnd,
                   todo, ret, histVars>>

\* Lines 85-97: client.get_steps() completes.
H_Steps ==
    /\ pc["hr"] = "h_steps"
    /\ \/ \E v \in StepCounts :
            IF KeepReading(v)
            THEN /\ CanWrite(1)
                 /\ samples' = add_sample(samples, cur["hr"], "steps", v)
            ELSE UNCHANGED samples
       \/ UNCHANGED samples      \* the call raised
    /\ Goto("hr", "h_battery")
    /\ UNCHANGED <<lifeVars, regVars, envVars, handles, db_rings, cur, hnd,
                   todo, ret, histVars>>

\* Lines 99-114: client.get_battery() completes; add_battery only.
H_Battery ==
    /\ pc["hr"] = "h_battery"
    /\ \/ \E v \in BatteryLevels :
            IF KeepBattery(v)
            THEN /\ CanWrite(1)
                 /\ samples' = add_sample(samples, cur["hr"], "battery", v)
            ELSE UNCHANGED samples
       \/ UNCHANGED samples      \* the call raised
    /\ Goto("hr", "next")
    /\ SetLocal("hr", 0, 0)
    /\ UNCHANGED <<lifeVars, regVars, envVars, db_rings, todo, ret,
                   histVars>>
    /\ KeepHandles

HrWorker == H_Loop \/ H_Next \/ H_Hr \/ H_Steps \/ H_Battery

(***************************************************************************)
(* The scanner worker (RingManager._scanner_loop).                         *)
(***************************************************************************)
\* `while self.running:` and the start of scan_for_devices(timeout=10).
S_Loop ==
    /\ pc["scan"] = "loop"
    /\ IF running THEN Goto("scan", "scanning") ELSE Goto("scan", "done")
    /\ UNCHANGED <<lifeVars, regVars, envVars, handles, dbVars, cur, hnd,
                   todo, ret, histVars>>

\* Lines 379-382: the scan returns and `devices` (todo["scan"]) is assigned
\* a list of dicts for the ring devices in range (here: the ids of their
\* addresses); or the scan or the event loop raises, into the handler at
\* line 415, and `devices` keeps its value.
S_Scan ==
    /\ pc["scan"] = "scanning"
    /\ \/ \E found \in SUBSET RingIds :
             /\ todo' = [todo EXCEPT !["scan"] = SeqOfSet(found)]
             /\ Goto("scan", "devices")
       \/ /\ UNCHANGED todo
          /\ Goto("scan", "loop")                 \* time.sleep(10)
    /\ UNCHANGED <<lifeVars, regVars, envVars, handles, dbVars, cur, hnd,
                   ret, histVars>>

\* A scanner worker that a failure on a device ends.
S_DeviceFatal ==
    /\ pc["scan"] = "devices"
    /\ IF todo["scan"] = <<>> \/ ~running
       THEN Goto("scan", "loop")
       ELSE Goto("scan", "done")
    /\ UNCHANGED <<lifeVars, regVars, envVars, handles, dbVars, cur, hnd,
                   todo, ret, histVars>>

\* Lines 387-417, `for device in devices:`.  No device, or the manager
\* stopped: time.sleep(SCAN_INTERVAL).  Else the first device is a dict
\* (scanner.py, lines 40-47) and `device.name` raises AttributeError; the
\* handler at line 410 formats device.name and raises again, and the
\* handler at line 415 ends the iteration: no record is added, no
\* connection is started, the other devices are skipped; time.sleep(10).
\* Either way the worker is back at the loop test.
S_Device ==
    /\ pc["scan"] = "devices"
    /\ Goto("scan", "loop")
    /\ UNCHANGED <<lifeVars, regVars, envVars, handles, dbVars, cur, hnd,
                   todo, ret, histVars>>

ScannerWorker == S_Loop \/ S_Scan \/ S_Device

(***************************************************************************)
(* The presentation-facing calls of the manager, made by one thread.       *)
(***************************************************************************)
\* The call returns v to the caller.
Return(v) ==
    /\ ret' = v
    /\ Goto("web", "idle")
    /\ SetLocal("web", 0, 0)

\* An exception leaves the method uncaught.
Propagated == "raised"

\* What the caller gets when an exception is raised inside a
\* presentation-facing method: the body of each is one `try` whose
\* `except Exception` logs and returns False (lines 846-848, 890-892,
\* 938-940, 1029-1031, 1139-1141; Ring.connect, lines 148-150).
Caught == "False"

\* Ring.connect / connect_ring, lines 852-878: look the ring up, construct
\* a ColmiClient for its address and start connect().
W_Connect(r) ==
    /\ pc["web"] = "idle"
    /\ UNCHANGED <<lifeVars, regVars, envVars, dbVars, todo, histVars>>
    /\ \/ /\ ~get_ring(r) \/ ~colmi_available
          /\ Return("False")
          /\ KeepHandles
       \/ \* ColmiClient(mac) raises inside Ring.connect: False
          /\ get_ring(r) /\ colmi_available
          /\ Return("False")
          /\ KeepHandles
       \/ /\ get_ring(r) /\ colmi_available
          /\ CanCreate
          /\ SetLocal("web", r, NextHandle)
          /\ handles' = [handles EXCEPT ![NextHandle] = NewHandle(MacOf(r), "real")]
          /\ Goto("web", "w_connect")
          /\ ret' = NoRet

\* connect_ring, lines 878-888: connect() completes; on success the client
\* is stored under the address, whatever was stored there before.
W_ConnectEnd ==
    /\ pc["web"] = "w_connect"
    /\ LET r == cur["web"]
           h == hnd["web"] IN
       \E ok \in ConnectOutcomes(h) :
          IF ok
          THEN /\ StoreClient(MacOf(r), r, h)
               /\ Return("True")
               /\ handles' = Collect(Linked(handles, h), clients', hnd')
          ELSE /\ ConnectFailed(MacOf(r))
               /\ \E v \in {Caught, "False"} :   \* raised, or returned False
                     Return(v)
               /\ KeepHandles
    /\ UNCHANGED <<lifeVars, envVars, samples, todo>>

\* disconnect_ring, lines 896-919: unknown ring: False; not connected:
\* True; else start disconnect() on the registered client.
W_Disconnect(r) ==
    /\ pc["web"] = "idle"
    /\ IF ~get_ring(r) THEN Return("False")
       ELSE IF ~InRegistry(MacOf(r)) THEN Return("True")
       ELSE /\ SetLocal("web", r, clients[MacOf(r)])
            /\ Goto("web", "w_disc")
            /\ ret' = NoRet
    /\ UNCHANGED <<lifeVars, regVars, envVars, dbVars, todo, histVars>>
    /\ KeepHandles

\* disconnect_ring, lines 919-940: disconnect() completes (an error is
\* logged and cleanup continues); `del self.clients[mac_address]` raises
\* KeyError if the entry is gone; then db.update_ring_disconnection, which
\* the Database class does not define: AttributeError, and the call
\* returns False.
W_DisconnectEnd ==
    /\ pc["web"] = "w_disc"
    /\ LET mac == MacOf(cur["web"])
           h == hnd["web"] IN
       /\ IF InRegistry(mac)
          THEN /\ clients' = [clients EXCEPT ![mac] = 0]
               /\ connected_rings' = connected_rings \ {mac}
          ELSE UNCHANGED regVars
       /\ Return(IF InRegistry(mac) /\ db_has_update_ring_disconnection
                 THEN "True" ELSE Caught)
       /\ \E ok \in DisconnectOutcomes(h) :
             handles' = Collect(Unlinked(handles, h, ok), clients', hnd')
    /\ UNCHANGED <<lifeVars, envVars, dbVars, todo, histVars>>

\* Database.remove_ring as called by the manager.
DbRemove(r) ==
    /\ db_rings' = db_remove_ring(db_rings, r)
    /\ samples' = db_remove_samples(samples, r)

\* remove_ring, lines 827-838: unknown ring: False; a registered client:
\* start disconnect(); else delete the record.
W_Remove(r) ==
    /\ pc["web"] = "idle"
    /\ IF ~get_ring(r)
       THEN /\ Return("False")
            /\ UNCHANGED dbVars
       ELSE IF InRegistry(MacOf(r))
       THEN /\ SetLocal("web", r, clients[MacOf(r)])
            /\ Goto("web", "w_rm_disc")
            /\ ret' = NoRet
            /\ UNCHANGED dbVars
       ELSE /\ DbRemove(r)
            /\ Return("True")
    /\ UNCHANGED <<lifeVars, regVars, envVars, todo, histVars>>
    /\ KeepHandles

\* remove_ring, lines 838-845: disconnect() completes.  If it returned,
\* `del self.clients[...]` follows; if it raised (or the del raised
\* KeyError) the handler only logs.  Then db.remove_ring.
W_RemoveEnd ==
    /\ pc["web"] = "w_rm_disc"
    /\ LET r == cur["web"]
           mac == MacOf(r)
           h == hnd["web"] IN
       /\ DbRemove(r)
       /\ Return("True")
       /\ \E ok \in DisconnectOutcomes(h) :
            /\ IF ok /\ InRegistry(mac)
               THEN clients' = [clients EXCEPT ![mac] = 0]
               ELSE UNCHANGED clients
            /\ handles' = Collect(Unlinked(handles, h, ok), clients', hnd')
    /\ UNCHANGED <<lifeVars, connected_rings, envVars, todo, histVars>>

(***************************************************************************)
(* scanner.scan_for_devices and its three strategies.  A device is a       *)
(* record of an address and a name; a name is a sequence of characters,    *)
(* <<>> where the radio reported none.                                     *)
(***************************************************************************)
MaxFound == 2

\* What a strategy can see on the air.
RawDevices ==
    {[address |-> "A1", name |-> <<"C", "o", "l", "m", "i">>],
     [address |-> "A2", name |-> <<"X", "C", "O", "L", "M", "I">>],
     [address |-> "A3", name |-> <<"M", "i">>],
     [address |-> "A4", name |-> <<>>]}

RECURSIVE ListsOf(_, _)
\* The duplicate-free lists of at most n elements of S.
ListsOf(S, n) ==
    IF n = 0 THEN {<<>>}
    ELSE {<<>>} \cup
         UNION {{<<d>> \o l : l \in ListsOf(S \ {d}, n - 1)} : d \in S}

\* What the environment does to a strategy: the tool raises (BleakError,
\* a missing binary, a timeout), exits with a non-zero code, or lists devices.
Outcomes(kinds) ==
    {[kind |-> k, devices |-> <<>>] : k \in kinds \ {"ok"}}
    \cup {[kind |-> "ok", devices |-> l] : l \in ListsOf(RawDevices, MaxFound)}

\* `device.name or "Unknown"`; hcitool's default name "Unknown".
Named(devices) ==
    [i \in 1..Len(devices) |->
        [address |-> devices[i].address,
         name |-> IF devices[i].name = <<>>
                  THEN <<"U", "n", "k", "n", "o", "w", "n">>
                  ELSE devices[i].name]]

\* A strategy's return: raised is TRUE when an exception leaves it, which
\* the `except Exception` of each strategy prevents.

scan_with_bleak(o) ==
    IF o.kind = "ok" THEN [raised |-> FALSE, devices |-> Named(o.devices)] ELSE [raised |-> FALSE, devices |-> <<>>]

scan_with_hcitool_uncaught(o) ==
    IF o.kind = "ok" THEN [raised |-> FALSE, devices |-> Named(o.devices)]
    ELSE [raised |-> o.kind = "raise", devices |-> <<>>]

scan_with_hcitool(o) ==
    IF o.kind = "ok" THEN [raised |-> FALSE, devices |-> Named(o.devices)] ELSE [raised |-> FALSE, devices |-> <<>>]

scan_with_bluetoothctl(o) ==
    IF o.kind = "ok" THEN [raised |-> FALSE, devices |-> Named(o.devices)] ELSE [raised |-> FALSE, devices |-> <<>>]

\* str.lower on the characters the names use.
lower(name) ==
    LET LowerChar(c) ==
            CASE c = "C" -> "c" [] c = "O" -> "o" [] c = "L" -> "l"
              [] c = "M" -> "m" [] c = "I" -> "i" [] c = "X" -> "x"
              [] c = "U" -> "u" [] OTHER -> c
    IN  [i \in 1..Len(name) |-> LowerChar(name[i])]

\* COLMI_DEVICE_PATTERN.search: the pattern occurs somewhere in the name.
COLMI_DEVICE_PATTERN == <<"c", "o", "l", "m", "i">>
search(pattern, name) ==
    \E i \in 1..(Len(name) - Len(pattern) + 1) :
        SubSeq(name, i, i + Len(pattern) - 1) = pattern

is_any_device(device) == TRUE

is_colmi_device(device) == search(COLMI_DEVICE_PATTERN, lower(device.name))

RECURSIVE Filter(_)
\* `[device for device in all_devices if is_colmi_device(device)]`
Filter(devices) ==
    IF devices = <<>> THEN <<>>
    ELSE (IF is_colmi_device(Head(devices)) THEN <<Head(devices)>> ELSE <<>>)
         \o Filter(Tail(devices))

\* One step of the call: strategy s ran with result r and control moves
\* to position p; an exception leaving the strategy leaves the call too.
Ran(s, o, r, field, p) ==
    /\ scan_call' =
         IF r.raised
         THEN [scan_call EXCEPT !.pc = "raised", !.ran = @ \o <<s>>,
                                !.failed = @ \cup {s}]
         ELSE [scan_call EXCEPT
                 !.pc = p, !.ran = @ \o <<s>>,
                 !.failed = IF o.kind = "ok" THEN @ ELSE @ \cup {s},
                 ![field] = r.devices,
                 !.all_devices = @ \o r.devices]
    /\ UNCHANGED <<coreVars, threads, rings_table, reg_call, manager>>

\* A call begins.
ScanBegin ==
    /\ scan_call.pc \in {"idle", "done"}
    /\ scan_call' = [NoScan EXCEPT !.pc = "bleak"]
    /\ UNCHANGED <<coreVars, threads, rings_table, reg_call, manager>>

\* Method 1, and `if not bleak_devices`.
ScanBleak ==
    /\ scan_call.pc = "bleak"
    /\ \E o \in Outcomes({"raise", "ok"}) :
          LET r == scan_with_bleak(o) IN
          Ran("bleak", o, r, "bleak_devices",
              IF r.devices = <<>> THEN "hcitool" ELSE "filter")

\* Method 2, and `if not hcitool_devices`.
ScanHcitool ==
    /\ scan_call.pc = "hcitool"
    /\ \E o \in Outcomes({"raise", "nonzero", "ok"}) :
          LET r == scan_with_hcitool(o) IN
          Ran("hcitool", o, r, "hcitool_devices",
              IF r.devices = <<>> THEN "bluetoothctl" ELSE "filter")

\* Method 3.
ScanBluetoothctl ==
    /\ scan_call.pc = "bluetoothctl"
    /\ \E o \in Outcomes({"raise", "nonzero", "ok"}) :
          LET r == scan_with_bluetoothctl(o) IN
          Ran("bluetoothctl", o, r, "bluetoothctl_devices", "filter")

\* The filter and the return.
ScanReturn ==
    /\ scan_call.pc = "filter"
    /\ scan_call' = [scan_call EXCEPT
                       !.pc = "done",
                       !.colmi_devices = Filter(scan_call.all_devices)]
    /\ UNCHANGED <<coreVars, threads, rings_table, reg_call, manager>>

scan_for_devices ==
    ScanBegin \/ ScanBleak \/ ScanHcitool \/ ScanBluetoothctl \/ ScanReturn

(***************************************************************************)
(* RingManager.start and stop over the thread objects they create.  Start  *)
(* and Stop above follow one scanner and one data worker through their     *)
(* iterations, for a manager started once its earlier workers have         *)
(* returned; here start() is taken at any time, every worker thread is     *)
(* kept, and an iteration is reduced to the loop test and the loop body.   *)
(***************************************************************************)
FreeThreads == {i \in ThreadIds : threads[i].target = "none"}

\* threading.Thread(target=...).start(): the thread is about to evaluate
\* `while self.running`.
NewThread(target) == [target |-> target, pc |-> "test"]

\* start(): returns at once if running; else sets the flag and starts a
\* scanner thread and a data thread.
start ==
    /\ manager = "constructed"
    /\ IF running
       THEN UNCHANGED <<running, threads>>
       ELSE /\ Cardinality(FreeThreads) >= 2
            /\ running' = TRUE
            /\ LET s == CHOOSE i \in FreeThreads : \A j \in FreeThreads : i <= j
                   d == CHOOSE i \in FreeThreads \ {s} :
                           \A j \in FreeThreads \ {s} : i <= j
               IN threads' = [threads EXCEPT
                                ![s] = NewThread("_scanner_loop"),
                                ![d] = NewThread("_data_collection_loop")]
    /\ UNCHANGED <<hr_running, regVars, lock, colmi_available, scan_call,
                   rings_table, reg_call, manager, handles, dbVars, pc, cur,
                   hnd, todo,
                   ret, histVars>>

\* stop(): clears the flag; it joins no thread.
stop ==
    /\ running' = FALSE
    /\ UNCHANGED <<hr_running, regVars, envVars, handles, dbVars, pc, cur,
                   hnd, todo, ret, histVars>>

\* `while self.running:` in either loop: enter the body, or return (the
\* thread is over).
LoopTest(i) ==
    /\ threads[i].pc = "test"
    /\ threads' = [threads EXCEPT
                     ![i] = IF running THEN [@ EXCEPT !.pc = "body"]
                            ELSE NoThread]
    /\ UNCHANGED <<coreVars, scan_call, rings_table, reg_call, manager>>

\* One iteration of the loop body, its sleep included.
LoopBody(i) ==
    /\ threads[i].pc = "body"
    /\ threads' = [threads EXCEPT ![i].pc = "test"]
    /\ UNCHANGED <<coreVars, scan_call, rings_table, reg_call, manager>>

\* RingManager.__init__: `self.db = db or Database()`, where Database()
\* runs init_db (as does the Database() the caller passes in).  init_db
\* has no handler for a directory or a file it cannot create or open, so
\* the exception leaves the constructor and no manager object exists.
Construct ==
    /\ manager = "none"
    /\ \E initialised \in BOOLEAN :
          manager' = IF initialised THEN "constructed" ELSE "failed"
    /\ UNCHANGED <<coreVars, scan_call, threads, rings_table, reg_call>>

(***************************************************************************)
(* Registration of devices: Database.add_ring and add_or_update_ring on    *)
(* the rings table, whose mac_address column is UNIQUE.  db_rings above is *)
(* the same table seen through the ids of the records the workers poll;    *)
(* rings_table keeps the key columns of every row.                         *)
(***************************************************************************)
MaxRowId == 4

\* An address no record holds at first.
NewMac == <<"1", "1", ":", "2", "2", ":", "3", "3", ":", "4", "4", ":", "5",
            "5", ":", "6", "6">>
RegMacs == Macs \cup {NewMac}

\* SELECT id FROM rings WHERE mac_address = ?  (0: no row)
select_id(tbl, mac) ==
    IF \E x \in tbl.rows : x.mac_address = mac
    THEN (CHOOSE x \in tbl.rows : x.mac_address = mac).id
    ELSE 0

insert_ring_no_unique(tbl, mac) ==
    [ok |-> TRUE, rowid |-> tbl.seq + 1,
     tbl |-> [rows |-> tbl.rows \cup {[id |-> tbl.seq + 1, mac_address |-> mac]},
              seq |-> tbl.seq + 1]]

\* INSERT INTO rings (..., mac_address) VALUES (...): sqlite3.IntegrityError
\* (ok is FALSE) when a row holds the address, else a row with the next id.
insert_ring(tbl, mac) ==
    IF \E x \in tbl.rows : x.mac_address = mac
    THEN [ok |-> FALSE, rowid |-> 0, tbl |-> tbl]
    ELSE [ok |-> TRUE, rowid |-> tbl.seq + 1,
          tbl |-> [rows |-> tbl.rows \cup
                              {[id |-> tbl.seq + 1, mac_address |-> mac]},
                   seq |-> tbl.seq + 1]]

\* The value of a call that an exception left.
RaisedId == -1

RegFrame == UNCHANGED <<coreVars, scan_call, threads, manager>>

\* _scanner_loop, lines 394-401: get_ring_by_mac; a row: its id is the
\* ring_id; none: add_ring follows.
R_Lookup(mac) ==
    /\ reg_call["scan"].pc = "idle"
    /\ LET id == select_id(rings_table, mac) IN
       reg_call' = [reg_call EXCEPT !["scan"] =
                 IF id # 0
                 THEN [pc |-> "idle", op |-> "get_ring_by_mac", mac |-> mac,
                       known |-> id, result |-> id]
                 ELSE [pc |-> "add", op |-> "get_ring_by_mac", mac |-> mac,
                       known |-> 0, result |-> 0]]
    /\ UNCHANGED rings_table
    /\ RegFrame

\* add_ring, lines 113-121: the INSERT; committed, it returns lastrowid.
\* Called by the scanner after its lookup and by the presentation layer
\* (web.py, line 103) for any address.
R_AddRing(t, mac) ==
    /\ \/ t = "web" /\ reg_call[t].pc = "idle"
       \/ t = "scan" /\ reg_call[t].pc = "add" /\ mac = reg_call[t].mac
    /\ rings_table.seq < MaxRowId
    /\ LET ins == insert_ring(rings_table, mac)
           call == [pc |-> "idle", op |-> "add_ring", mac |-> mac,
                    known |-> select_id(rings_table, mac), result |-> 0]
       IN /\ rings_table' = ins.tbl
          /\ reg_call' = [reg_call EXCEPT ![t] =
                       IF ins.ok THEN [call EXCEPT !.result = ins.rowid]
                       ELSE [call EXCEPT !.pc = "select"]]
    /\ RegFrame

\* add_ring, lines 122-130: the IntegrityError handler selects the id of
\* the row that holds the address; fetchone()[0] raises if there is none.
R_AddRingSelect(t) ==
    /\ reg_call[t].pc = "select"
    /\ LET id == select_id(rings_table, reg_call[t].mac) IN
       reg_call' = [reg_call EXCEPT ![t].pc = "idle",
                          ![t].result = IF id # 0 THEN id ELSE RaisedId]
    /\ UNCHANGED rings_table
    /\ RegFrame

\* add_or_update_ring, lines 300-316: the SELECT; a row: the UPDATE of its
\* name and last_connected, and its id is returned; none: the INSERT
\* follows.
R_AddOrUpdate(t, mac) ==
    /\ reg_call[t].pc = "idle"
    /\ LET id == select_id(rings_table, mac)
           call == [pc |-> "idle", op |-> "add_or_update_ring", mac |-> mac,
                    known |-> id, result |-> id]
       IN reg_call' = [reg_call EXCEPT ![t] =
                    IF id # 0 THEN call ELSE [call EXCEPT !.pc = "insert"]]
    /\ UNCHANGED rings_table
    /\ RegFrame

\* add_or_update_ring, lines 317-325: the INSERT; an IntegrityError leaves
\* the function (it has no handler).
R_AddOrUpdateInsert(t) ==
    /\ reg_call[t].pc = "insert"
    /\ rings_table.seq < MaxRowId
    /\ LET ins == insert_ring(rings_table, reg_call[t].mac) IN
       /\ rings_table' = ins.tbl
       /\ reg_call' = [reg_call EXCEPT ![t].pc = "idle",
                             ![t].result = IF ins.ok THEN ins.rowid
                                           ELSE RaisedId]
    /\ RegFrame

Register ==
    \/ \E mac \in RegMacs : R_Lookup(mac)
    \/ \E t \in Registrars, mac \in RegMacs :
          R_AddRing(t, mac) \/ R_AddOrUpdate(t, mac)
    \/ \E t \in Registrars : R_AddRingSelect(t) \/ R_AddOrUpdateInsert(t)

(***************************************************************************)
(* Historical sync (RingManager.sync_historical_data_for_ring).            *)
(***************************************************************************)
\* An entry of steps_history / heart_rate_history.  The timestamp is absent
\* ("none"), an ISO string of the instant t ("iso"), or a string that
\* neither datetime.fromisoformat nor strptime accepts ("junk").
Entry(form, t, v) == [form |-> form, t |-> t, value |-> v]

\* What get_historical_data() can return besides None.
HistoryBatches == {
    [steps_history |-> <<Entry("iso", 1, 5000)>>,
     heart_rate_history |-> <<Entry("iso", 1, 70)>>],
    [steps_history |-> <<Entry("iso", 2, 0)>>,
     heart_rate_history |-> <<Entry("none", 0, 70)>>],
    [steps_history |-> <<Entry("iso", 2, 300), Entry("junk", 0, 5)>>,
     heart_rate_history |-> <<Entry("iso", 2, 60)>>],
    [steps_history |-> <<>>, heart_rate_history |-> <<>>] }

\* MockColmiR02Client.get_historical_data returns the object's own
\* _historical_data, the same on every call.
MockHistory ==
    [steps_history |-> <<Entry("iso", 1, 5000)>>,
     heart_rate_history |-> <<Entry("iso", 1, 70)>>]

BatchesOf(h) ==
    IF handles[h].kind = "mock" THEN {MockHistory} ELSE HistoryBatches

\* `if timestamp and steps:` / `if timestamp and heart_rate:`
KeepEntry(e) == e.form # "none" /\ e.value # None /\ e.value # 0

\* datetime.fromisoformat(timestamp), else strptime: raises ValueError.
Parses(e) == e.form = "iso"

\* The loop over one history list, lines 1087-1100 / 1108-1121: every kept
\* entry is inserted with its own timestamp; a timestamp that does not
\* parse raises out of the loop, the rows written so far stay.
RECURSIVE ProcessHistory(_, _, _, _, _)
ProcessHistory(tbl, r, kind, entries, count) ==
    IF entries = <<>> THEN [tbl |-> tbl, count |-> count, raised |-> FALSE]
    ELSE LET e == Head(entries) IN
         IF ~KeepEntry(e)
         THEN ProcessHistory(tbl, r, kind, Tail(entries), count)
         ELSE IF ~Parses(e)
         THEN [tbl |-> tbl, count |-> count, raised |-> TRUE]
         ELSE ProcessHistory(
                  add_sample_with_timestamp(tbl, r, kind, e.value, e.t),
                  r, kind, Tail(entries), count + 1)

\* Lines 1082-1137 for a returned batch: the table afterwards and the
\* value returned.
SyncBatch(tbl, r, b) ==
    LET s == ProcessHistory(tbl, r, "steps", b.steps_history, 0)
        h == IF s.raised THEN s
             ELSE ProcessHistory(s.tbl, r, "heart_rate", b.heart_rate_history, 0)
        synced_data == s.count > 0 \/ h.count > 0
    IN [tbl |-> h.tbl,
        ret |-> IF s.raised \/ h.raised THEN Caught
                ELSE IF ~synced_data THEN "False"
                ELSE IF db_has_update_last_sync THEN "True"
                ELSE Caught]

\* hasattr(client, 'get_historical_data'): the simulated client has it.
HasHistory(h) == IF handles[h].kind = "mock" THEN {TRUE} ELSE BOOLEAN

\* Lines 1035-1074: unknown ring: False.  Not in the registry: connect_ring
\* first.  Else take the registered client and start get_historical_data().
W_Sync(r) ==
    /\ pc["web"] = "idle"
    /\ UNCHANGED <<lifeVars, regVars, envVars, dbVars, todo, histVars>>
    /\ IF ~get_ring(r)
       THEN Return("False") /\ KeepHandles
       ELSE IF InRegistry(MacOf(r))
       THEN \E has \in HasHistory(clients[MacOf(r)]) :
               IF has
               THEN /\ SetLocal("web", r, clients[MacOf(r)])
                    /\ Goto("web", "w_sync")
                    /\ ret' = NoRet
                    /\ KeepHandles
               ELSE Return("False") /\ KeepHandles
       ELSE \/ \* connect_ring: no ColmiClient, or its constructor raises
               /\ Return("False")
               /\ KeepHandles
            \/ /\ colmi_available
               /\ CanCreate
               /\ SetLocal("web", r, NextHandle)
               /\ handles' = [handles EXCEPT ![NextHandle] = NewHandle(MacOf(r), "real")]
               /\ Goto("web", "ws_connect")
               /\ ret' = NoRet

\* connect_ring inside the sync completes (lines 1054-1066): on failure
\* the sync returns False; on success the client is stored, fetched back
\* from the registry and get_historical_data() is started.
W_SyncConnectEnd ==
    /\ pc["web"] = "ws_connect"
    /\ LET r == cur["web"]
           h == hnd["web"] IN
       \E ok \in ConnectOutcomes(h) :
          IF ok
          THEN /\ StoreClient(MacOf(r), r, h)
               /\ \E has \in HasHistory(h) :
                     IF has
                     THEN /\ Goto("web", "w_sync")
                          /\ UNCHANGED <<cur, hnd>>
                          /\ ret' = NoRet
                     ELSE Return("False")
               /\ handles' = Collect(Linked(handles, h), clients', hnd')
          ELSE /\ ConnectFailed(MacOf(r))
               /\ Return("False")
               /\ KeepHandles
    /\ UNCHANGED <<lifeVars, envVars, samples, todo>>

\* get_historical_data() completes (lines 1071-1137): it raises, returns
\* nothing, or returns a batch that is written entry by entry.
W_SyncEnd ==
    /\ pc["web"] = "w_sync"
    /\ \/ /\ \E v \in {Caught, "False"} :   \* raised, or `not historical_data`
                Return(v)
          /\ UNCHANGED samples
       \/ \E b \in BatchesOf(hnd["web"]) :
             LET res == SyncBatch(samples, cur["web"], b) IN
             /\ CountOf(res.tbl, {x \in BagToSet(res.tbl) : x.ts # 0}) <= MaxHistory
             /\ samples' = res.tbl
             /\ Return(res.ret)
    /\ UNCHANGED <<lifeVars, regVars, envVars, db_rings, todo,
                   histVars>>
    /\ handles' = Collect([handles EXCEPT ![hnd["web"]].history_read = TRUE],
                          clients', hnd')

(***************************************************************************)
(* RingManager.reboot_ring.                                                *)
(***************************************************************************)
\* Lines 981-1003: unknown ring: False; not in the registry: False; else
\* start reboot() on the registered client.
W_Reboot(r) ==
    /\ pc["web"] = "idle"
    /\ IF ~get_ring(r) \/ ~InRegistry(MacOf(r))
       THEN Return("False")
       ELSE /\ SetLocal("web", r, clients[MacOf(r)])
            /\ Goto("web", "w_reboot")
            /\ ret' = NoRet
    /\ UNCHANGED <<lifeVars, regVars, envVars, dbVars, todo, histVars>>
    /\ KeepHandles

\* Outcomes of a reboot() call (TRUE: it returned, FALSE: it raised):
\* MockColmiR02Client.reboot always returns.
RebootOutcomes(h) ==
    IF handles[h].kind = "mock" THEN {TRUE} ELSE BOOLEAN

\* Lines 1005-1027: reboot() raised: the inner handler returns False.  It
\* returned: `del self.clients[mac_address]` (KeyError if the entry is
\* gone), the connected_rings entry, then db.update_ring_disconnection,
\* which the Database class does not define.
W_RebootEnd ==
    /\ pc["web"] = "w_reboot"
    /\ LET mac == MacOf(cur["web"])
           h == hnd["web"] IN
       \E ok \in RebootOutcomes(h) :
          IF ok
          THEN /\ IF InRegistry(mac)
                  THEN /\ clients' = [clients EXCEPT ![mac] = 0]
                       /\ connected_rings' = connected_rings \ {mac}
                  ELSE UNCHANGED regVars
               /\ Return(IF InRegistry(mac) /\ db_has_update_ring_disconnection
                         THEN "True" ELSE Caught)
               /\ handles' = Collect(Unlinked(handles, h, TRUE), clients', hnd')
          ELSE /\ UNCHANGED regVars
               /\ Return(Caught)
               /\ KeepHandles
    /\ UNCHANGED <<lifeVars, envVars, dbVars, todo, histVars>>

(***************************************************************************)
(* The connect, read and disconnect mode                                   *)
(* (RingManager._connect_and_get_data), applied by a caller to a           *)
(* registered ring.  The scanner loop calls it at line 408 when            *)
(* PERSISTENT_CONNECTION is false.                                         *)
(***************************************************************************)
\* Lines 612-631: an address in the registry: return.  Else construct the
\* client (ColmiClient; the simulated client when ColmiClient is not
\* available or its constructor raises), store it and start connect().
CG_Begin(r) ==
    /\ pc["web"] = "idle"
    /\ get_ring(r)
    /\ IF InRegistry(MacOf(r))
       THEN /\ Return("None")
            /\ UNCHANGED clients
            /\ KeepHandles
       ELSE \E kind \in (IF colmi_available THEN {"real", "mock"} ELSE {"mock"}) :
            /\ CanCreate
            /\ SetLocal("web", r, NextHandle)
            /\ clients' = [clients EXCEPT ![MacOf(r)] = NextHandle]
            /\ handles' = [handles EXCEPT ![NextHandle] = NewHandle(MacOf(r), kind)]
            /\ Goto("web", "cg_connect")
            /\ ret' = NoRet
    /\ UNCHANGED <<lifeVars, connected_rings, envVars, dbVars, todo, histVars>>

\* `finally: if mac_address in self.clients: del self.clients[mac_address]`
CG_Finally(mac) ==
    clients' = [clients EXCEPT ![mac] = 0]

\* Lines 633-648 and 704-713: connect() completes.  Connected:
\* update_ring_connection and on to the reads; else log, the finally
\* clause, return.
CG_ConnectEnd ==
    /\ pc["web"] = "cg_connect"
    /\ LET r == cur["web"]
           h == hnd["web"] IN
       \E ok \in ConnectOutcomes(h) :
          IF ok
          THEN /\ db_rings' = update_ring_connection(db_rings, r)
               /\ AttemptSucceeded(MacOf(r))
               /\ Goto("web", "cg_battery")
               /\ UNCHANGED <<clients, cur, hnd, ret>>
               /\ handles' = Collect(Linked(handles, h), clients', hnd')
          ELSE /\ AttemptFailed(MacOf(r))
               /\ CG_Finally(MacOf(r))
               /\ Return("None")
               /\ UNCHANGED db_rings
               /\ KeepHandles
    /\ UNCHANGED <<lifeVars, connected_rings, envVars, samples, todo,
                   read_failed>>

\* Lines 650-661: get_battery() completes; add_battery(ring_id, battery)
\* and update_ring_battery with whatever was read.  A None violates the
\* NOT NULL constraint of the table: IntegrityError, logged like a raise
\* of the call.
CG_Battery ==
    /\ pc["web"] = "cg_battery"
    /\ \/ \E v \in BatteryLevels \ {None} :
            /\ CanWrite(1)
            /\ samples' = add_sample(samples, cur["web"], "battery", v)
            /\ db_rings' = update_ring_battery(db_rings, cur["web"], v)
       \/ UNCHANGED dbVars       \* the call raised, or returned None
    /\ Goto("web", "cg_steps")
    /\ UNCHANGED <<lifeVars, regVars, envVars, handles, cur, hnd, todo, ret,
                   histVars>>

\* Lines 663-672: get_steps() completes; add_steps(ring_id, steps) with
\* whatever was read.
CG_Steps ==
    /\ pc["web"] = "cg_steps"
    /\ \/ \E v \in StepCounts \ {None} :
            /\ CanWrite(1)
            /\ samples' = add_sample(samples, cur["web"], "steps", v)
       \/ UNCHANGED samples      \* the call raised, or returned None
    /\ Goto("web", "cg_hr")
    /\ UNCHANGED <<lifeVars, regVars, envVars, handles, db_rings, cur, hnd,
                   todo, ret, histVars>>

\* Lines 674-689: get_real_time_heart_rate() completes; v is the last
\* element of the list (None: the call raised or the list is empty).
\* `if hr_value > 0: add_heart_rate`.
CG_Hr ==
    /\ pc["web"] = "cg_hr"
    /\ \E v \in HeartRates :
          IF v # None /\ v > 0
          THEN /\ CanWrite(1)
               /\ samples' = add_sample(samples, cur["web"], "heart_rate", v)
          ELSE UNCHANGED samples
    /\ Goto("web", "cg_disc")
    /\ UNCHANGED <<lifeVars, regVars, envVars, handles, db_rings, cur, hnd,
                   todo, ret, histVars>>

\* Lines 691-713: disconnect() completes or raises; the finally clause
\* deletes the registry entry; return.
CG_DisconnectEnd ==
    /\ pc["web"] = "cg_disc"
    /\ CG_Finally(MacOf(cur["web"]))
    /\ Return("None")
    /\ \E ok \in DisconnectOutcomes(hnd["web"]) :
          handles' = Collect(Unlinked(handles, hnd["web"], ok), clients', hnd')
    /\ UNCHANGED <<lifeVars, connected_rings, envVars, dbVars, todo, histVars>>

ConnectAndGetData ==
    \/ \E r \in RingIds : CG_Begin(r)
    \/ CG_ConnectEnd \/ CG_Battery \/ CG_Steps \/ CG_Hr \/ CG_DisconnectEnd

(***************************************************************************)
(* RingManager.save_ring_data.                                             *)
(***************************************************************************)
\* The data argument: a reading is None when the key is missing or None.
SaveData ==
    [heart_rate : HeartRates, steps : StepCounts, battery : BatteryLevels]

\* `if 'heart_rate' in data and data['heart_rate']`, and the like for steps
\* and battery: the value must be truthy.
Truthy(v) == v # None /\ v # 0

\* The rows save_ring_data inserts for data d, in the order of the code.
SaveRows(tbl, r, d) ==
    LET t1 == IF Truthy(d.heart_rate)
              THEN add_sample(tbl, r, "heart_rate", d.heart_rate) ELSE tbl
        t2 == IF Truthy(d.steps)
              THEN add_sample(t1, r, "steps", d.steps) ELSE t1
    IN IF Truthy(d.battery)
       THEN add_sample(t2, r, "battery", d.battery) ELSE t2

\* Lines 962-977: the three inserts, return True (the ring is not looked up).
W_Save(r, d) ==
    /\ pc["web"] = "idle"
    /\ CountOf(SaveRows(samples, r, d),
               {x \in BagToSet(SaveRows(samples, r, d)) : x.ts = 0})
          <= MaxSamples
    /\ samples' = SaveRows(samples, r, d)
    /\ Return("True")
    /\ UNCHANGED <<lifeVars, regVars, envVars, db_rings, todo, histVars>>
    /\ KeepHandles

(***************************************************************************)
(* The status snapshot (RingManager.get_ring_status).                      *)
(***************************************************************************)
\* Lines 721-725 and 760: the entry of one row of the rings table:
\* dict(ring) with 'connected' added.
StatusEntry(r) ==
    [id |-> r, mac_address |-> MacOf(r), connected |-> InRegistry(MacOf(r)),
     battery_level |-> db_rings[r].battery_level]

\* A snapshot that lists the rows and then, again, the rings of the
\* registry.
get_ring_status_with_registry ==
    LET ids == get_rings
        reg == SeqOfSet({r \in RingIds : InRegistry(MacOf(r))})
    IN [i \in 1..Len(ids) |-> StatusEntry(ids[i])]
          \o [i \in 1..Len(reg) |-> StatusEntry(reg[i])]

\* Lines 715-762: one entry per row of db.get_rings(), in its order.
get_ring_status ==
    LET ids == get_rings
    IN [i \in 1..Len(ids) |-> StatusEntry(ids[i])]

\* What the caller of a snapshot operation holds: the list or dict itself
\* is the value of get_ring_status above; ret records which kind came back.
Snapshot == "snapshot"
EmptyDict == "{}"

\* A status call that also drops the sessions it lists.
W_StatusDropping ==
    /\ pc["web"] = "idle"
    /\ ret' = Snapshot
    /\ clients' = [m \in Macs |-> 0]
    /\ UNCHANGED <<lifeVars, connected_rings, envVars, handles, dbVars, pc,
                   cur, hnd, todo, histVars>>

\* get_ring_status called from the presentation layer (lines 715-762): it
\* reads the rings table, the registry's keys and the latest samples, and
\* returns the list.
W_Status ==
    /\ pc["web"] = "idle"
    /\ ret' = Snapshot
    /\ UNCHANGED <<lifeVars, regVars, envVars, handles, dbVars, pc, cur, hnd,
                   todo, histVars>>

\* get_ring_data (lines 764-823): {} without a record, else the record with
\* the registry test and the stored samples.
W_Data(r) ==
    /\ pc["web"] = "idle"
    /\ ret' = IF get_ring(r) THEN Snapshot ELSE EmptyDict
    /\ UNCHANGED <<lifeVars, regVars, envVars, handles, dbVars, pc, cur, hnd,
                   todo, histVars>>

WebCalls ==
    \/ \E r \in RingIds :
          W_Connect(r) \/ W_Disconnect(r) \/ W_Remove(r) \/ W_Sync(r)
    \/ W_ConnectEnd \/ W_DisconnectEnd \/ W_RemoveEnd
    \/ W_SyncConnectEnd \/ W_SyncEnd
    \/ (\E r \in RingIds : W_Reboot(r)) \/ W_RebootEnd

\* The data-collection worker when no other thread stores a client:
\* D_StaleDisc needs an entry stored by another thread between the test at
\* line 431 and the test at line 521.
DataWorkerAlone ==
    \/ D_Loop \/ D_Next \/ D_CtrEnter \/ D_CtrClient
    \/ D_ConnectEnd \/ D_Post \/ D_SetTimeEnd \/ D_Chk \/ D_Hr \/ D_Steps
    \/ D_Battery \/ D_Err \/ D_ErrDisc

Next ==
    \/ Construct \/ start \/ stop
    \/ (\E i \in ThreadIds : LoopTest(i) \/ LoopBody(i))
    \/ Start \/ HrStart \/ Stop \/ HrStop
    \/ DataWorker \/ D_StorageFailure \/ HrWorker \/ ScannerWorker
    \/ WebCalls
    \/ scan_for_devices \/ Register

Spec == Init /\ [][Next]_vars

\* The data-collection worker and the scanner worker, started and stopped.
NextData == Start \/ Stop \/ DataWorkerAlone \/ ScannerWorker
SpecData == Init /\ [][NextData]_vars

\* The presentation-facing calls alone.
NextApi == WebCalls
SpecApi == Init /\ [][NextApi]_vars

\* The data-collection worker and the heart-rate logger worker.
NextPoll == Start \/ HrStart \/ DataWorkerAlone \/ HrWorker
SpecPoll == Init /\ [][NextPoll]_vars

\* The data-collection worker and presentation-layer connect calls.
NextConnect ==
    \/ Start \/ DataWorker
    \/ \E r \in RingIds : W_Connect(r)
    \/ W_ConnectEnd
SpecConnect == Init /\ [][NextConnect]_vars

\* The polling paths a caller applies directly: the connect, read and
\* disconnect mode, and save_ring_data.
NextOneShot ==
    \/ ConnectAndGetData
    \/ \E r \in RingIds, d \in SaveData : W_Save(r, d)
SpecOneShot == Init /\ [][NextOneShot]_vars


\* The scanner worker, started and stopped, and remove_ring on rings that
\* have no session (no worker of this composition connects one).
NextScan ==
    \/ Start \/ Stop \/ ScannerWorker
    \/ \E r \in RingIds : W_Remove(r)
SpecScan == Init /\ [][NextScan]_vars

\* The two workers with the snapshot operations called at any moment.
NextStatus ==
    \/ NextData
    \/ W_Status
    \/ \E r \in RingIds : W_Data(r)
SpecStatus == Init /\ [][NextStatus]_vars

\* The scanner thread keeps being scheduled, and its scan and sleep calls
\* return.
SpecScanFair == SpecScan /\ WF_vars(ScannerWorker)

\* Both worker threads keep being scheduled, and their device, scan and
\* sleep calls return.
SpecDataFair ==
    SpecData /\ WF_vars(DataWorkerAlone) /\ WF_vars(ScannerWorker)

\* Calls of scan_for_devices alone.
SpecScanCall == Init /\ [][scan_for_devices]_vars

\* The data-collection worker and presentation-layer removals.
NextRemove ==
    \/ Start \/ DataWorkerAlone
    \/ \E r \in RingIds : W_Remove(r)
    \/ W_RemoveEnd
SpecRemove == Init /\ [][NextRemove]_vars

\* start() and stop() in any order, and the worker threads they leave.
NextLife == start \/ stop \/ \E i \in ThreadIds : LoopTest(i) \/ LoopBody(i)
SpecLife == Init /\ [][NextLife]_vars

\* Registrations by the scanner worker and the presentation layer.
SpecRegister == Init /\ [][Register]_vars

\* From the construction of the manager on: the workers, started and
\* stopped, with a storage that can fail under the data worker.
NextStartup == Construct \/ NextData \/ D_StorageFailure
SpecStartup == InitWith("none") /\ [][NextStartup]_vars
(***************************************************************************)
(* Properties of the connection and retry policy.                          *)
(***************************************************************************)
\* C1: a session whose connect has failed MAX_RETRY_ATTEMPTS times in a row
\* is in Backoff: the polling loop does not count it as eligible for a
\* connect attempt.
C1_BackoffAfterMaxFailures ==
    \A m \in Macs :
        connect_failures[m] >= MAX_RETRY_ATTEMPTS => ~EligibleForConnect(m)

\* C2: once the real client has failed MAX_RETRY_ATTEMPTS times in a row on
\* a valid hardware address, the manager has brought in the simulated
\* client for that address.
C2_FallbackToSimulated ==
    \A m \in Macs :
        (is_valid_mac(m) /\ connect_failures[m] >= MAX_RETRY_ATTEMPTS)
            => \E h \in HandleIds :
                  handles[h].kind = "mock" /\ handles[h].mac = m

\* C3: the real client is never instantiated for an address that fails the
\* hardware-address-format check.
C3_InvalidAddressNeverReal ==
    \A h \in HandleIds :
        handles[h].kind = "real" => is_valid_mac(handles[h].mac)

\* C4: when a read of the data-collection worker has raised, the session is
\* out of the registry by the end of that ring's iteration.
C4_ReadFailureDisconnects ==
    (pc["data"] = "next" /\ cur["data"] # 0 /\ read_failed)
        => ~InRegistry(MacOf(cur["data"]))

\* C5: a ring whose Device Record remove_ring has deleted has no entry left
\* in the registry.
C5_RemovedRingNotInRegistry ==
    \A r \in RingIds : ~get_ring(r) => ~InRegistry(MacOf(r))

\* C6: after the manager is stopped and its workers have ended, no session
\* remains in the registry.
C6_StopDisconnectsAll ==
    (~running /\ pc["data"] = "done" /\ pc["scan"] = "done")
        => \A m \in Macs : ~InRegistry(m)

(***************************************************************************)
(* Properties of the threads' use of the clients and the registry.         *)
(***************************************************************************)
\* C7: at most one Device Client connect() call is in flight at any time.
C7_ConnectSerialized ==
    Cardinality({t \in Threads : pc[t] \in ConnectPcs}) <= 1

\* C8: no two threads are inside a call on the same Device Client object at
\* the same time.
C8_NoConcurrentHandleUse ==
    \A t1, t2 \in Threads :
        (t1 # t2 /\ InCall(t1) /\ InCall(t2)) => hnd[t1] # hnd[t2]

\* The data worker's positions between a membership test on the registry
\* and the insert or delete that follows it (lines 431/521 to 597, 521 to
\* 541, 487 to 498).
RmwPcs == {"ctr2", "connect", "stale_disc", "err_disc"}

\* C9: while a thread is between its membership test on the registry and
\* the update that follows, no other thread changes the registry.
C9_NoRegistryInterference ==
    [][\A t \in Threads :
          (pc[t] \in RmwPcs /\ pc'[t] = pc[t]) => clients' = clients]_vars

(***************************************************************************)
(* Properties of the historical sync.                                      *)
(***************************************************************************)
\* C10: storage never holds two historical samples with the same device,
\* kind and timestamp.
C10_NoDuplicateHistory ==
    \A x \in HistoryRows :
        /\ samples[x] <= 1
        /\ \A y \in HistoryRows :
              (x.ring = y.ring /\ x.kind = y.kind /\ x.ts = y.ts) => x = y

(***************************************************************************)
(* Properties of what polling writes.                                      *)
(***************************************************************************)
\* C11: no heart-rate or steps sample written by polling has the value 0 or
\* an absent reading.
C11_NoZeroOrAbsentSample ==
    \A x \in LiveRows :
        x.kind \in {"heart_rate", "steps"} => (x.value # None /\ x.value # 0)

\* C12: a present battery reading of 0 handed to save_ring_data is written
\* as a battery sample.
C12_ZeroBatteryKept ==
    [][\A r \in RingIds, d \in SaveData :
          (W_Save(r, d) /\ d.battery = 0)
              => CopiesIn(Row(r, "battery", 0, 0), samples')
                    = CopiesIn(Row(r, "battery", 0, 0), samples) + 1]_vars

(***************************************************************************)
(* Properties of the presentation-facing calls.                            *)
(***************************************************************************)
\* C13: a historical sync requested for a ring that is not in the registry
\* returns failure at once: no client is created, the registry and the
\* storage stay as they are.
C13_SyncNotConnectedFails ==
    [][\A r \in RingIds :
          (W_Sync(r) /\ get_ring(r) /\ ~InRegistry(MacOf(r)))
              => /\ pc'["web"] = "idle"
                 /\ ret' = "False"
                 /\ UNCHANGED <<handles, regVars, dbVars>>]_vars

\* A batch whose entries all have a timestamp that parses and a non-zero
\* value, none of them stored yet for ring r.
AllNew(b, r) ==
    /\ Len(b.steps_history) + Len(b.heart_rate_history) > 0
    /\ \A i \in 1..Len(b.steps_history) :
          LET e == b.steps_history[i] IN
          /\ KeepEntry(e) /\ Parses(e)
          /\ Row(r, "steps", e.value, e.t) \notin BagToSet(samples)
    /\ \A i \in 1..Len(b.heart_rate_history) :
          LET e == b.heart_rate_history[i] IN
          /\ KeepEntry(e) /\ Parses(e)
          /\ Row(r, "heart_rate", e.value, e.t) \notin BagToSet(samples)

\* C14: a historical sync that has stored a batch of all-new samples reports
\* success.
C14_SyncReportsSuccess ==
    [][\A b \in HistoryBatches :
          (/\ pc["web"] = "w_sync"
           /\ pc'["web"] = "idle"
           /\ AllNew(b, cur["web"])
           /\ samples' = SyncBatch(samples, cur["web"], b).tbl)
              => ret' = "True"]_vars

\* C15: a status snapshot holds exactly one entry for every address that has
\* a Device Record, no entry for any other address, and every entry carries
\* one connection state.
C15_OneEntryPerAddress ==
    LET snap == get_ring_status
        known == {MacOf(r) : r \in {x \in RingIds : get_ring(x)}}
    IN /\ \A m \in known :
             Cardinality({i \in DOMAIN snap : snap[i].mac_address = m}) = 1
       /\ \A i \in DOMAIN snap :
             snap[i].mac_address \in known /\ snap[i].connected \in BOOLEAN

\* A snapshot taken with one ring removed and the other connected.
C15_Witness ==
    /\ Len(get_ring_status) = 1
    /\ get_ring_status[1].connected


\* C16: connect_ring, disconnect_ring, remove_ring, reboot_ring and
\* sync_historical_data_for_ring never let an exception reach the caller:
\* whenever one of them has returned, the caller holds True or False.
C16_CallsNeverRaise ==
    pc["web"] = "idle" => ret \in {NoRet, "True", "False"}

\* disconnect_ring or reboot_ring has dropped the session of a connected ring
\* and then hit the missing storage method: the record still says connected,
\* the registry is empty, and the caller was handed False.
C16_Witness ==
    /\ pc["web"] = "idle"
    /\ ret = Caught
    /\ get_ring(1)
    /\ db_rings[1].last_connected
    /\ ~InRegistry(MacOf(1))
    /\ connect_failures[MacOf(1)] = 0

\* C17: connect_ring, disconnect_ring, remove_ring, reboot_ring or
\* sync_historical_data_for_ring called with an id that has no Device Record
\* returns False at once: no Device Client is created or called, no failure is
\* counted, and the registry and the storage are left as they were.
C17_UnknownIdFails ==
    [][\A r \in RingIds :
          (/\ ~db_rings[r].present
           /\ \/ W_Connect(r) \/ W_Disconnect(r) \/ W_Remove(r)
              \/ W_Reboot(r) \/ W_Sync(r))
              => /\ ret' = "False"
                 /\ pc' = pc
                 /\ handles' = handles
                 /\ UNCHANGED <<regVars, dbVars, histVars>>]_vars

\* Every record has been removed and a later call was refused.
C17_Witness ==
    /\ \A r \in RingIds : ~db_rings[r].present
    /\ pc["web"] = "idle"
    /\ ret = "False"

\* C18: the data-collection worker polls a session only after the session's
\* historical data has been read.
C18_SyncBeforeFirstPoll ==
    pc["data"] = "hr" => handles[hnd["data"]].history_read

\* C20: while a simulated client serves an address, no real client is
\* created to connect to that address.
C20_SimulatedStaysSimulated ==
    [][\A m \in Macs, h \in HandleIds :
          (/\ InRegistry(m)
           /\ handles[clients[m]].kind = "mock"
           /\ handles[h].kind = "none"
           /\ handles'[h].kind = "real")
              => handles'[h].mac # m]_vars

\* C19: no thread starts a connect() call for an address whose retries are
\* exhausted while the cooldown of that address is still running.
C19_NoAttemptDuringCooldown ==
    [][\A t \in Threads :
          (pc[t] \notin ConnectPcs /\ pc'[t] \in ConnectPcs)
              => cooldown[handles'[hnd'[t]].mac] = 0]_vars

(***************************************************************************)
(* Properties of the records, the workers and the shutdown.                *)
(***************************************************************************)
\* C21: the Device Record of an address that a simulated client is
\* connected to carries the is-simulated flag.
C21_SimulatedFlagSet ==
    \A r \in RingIds :
        (/\ get_ring(r)
         /\ InRegistry(MacOf(r))
         /\ handles[clients[MacOf(r)]].kind = "mock")
            => is_mock(r)

\* C23: when the scanner worker has gone through the devices of a scan while
\* the manager is running, every device of the scan has a Device Record.
C23_ScannedDeviceRegistered ==
    [][(/\ pc["scan"] = "devices"
        /\ pc'["scan"] = "loop"
        /\ running)
          => \A i \in 1..Len(todo["scan"]) :
                db_rings'[todo["scan"][i]].present]_vars

\* C22: the data-collection worker ends an iteration only when no ring of
\* the iteration is left to handle.
C22_RemainingRingsHandled ==
    [][(pc["data"] \notin {"off", "loop"} /\ pc'["data"] = "loop")
          => todo["data"] = <<>>]_vars

\* C24: a disconnect_ring or reboot_ring call that returns False has left
\* the registry as it was, and one that returns True after its client call
\* has left the address out of the registry.
C24_FailureLeavesRegistry ==
    [][(pc["web"] \in {"w_disc", "w_reboot"} /\ pc'["web"] = "idle")
          => /\ ret' = "False" => UNCHANGED regVars
             /\ ret' = "True" => clients'[MacOf(cur["web"])] = 0]_vars

\* C25: once stop() has returned, no Device Client call of the
\* data-collection worker is in flight.
C25_StopAwaitsCalls ==
    ~running => ~InCall("data")

\* C26: a step in which get_ring_status or get_ring_data hands its result
\* to the caller starts no Device Client call, moves no thread, and leaves
\* the lock, the registry, the client objects and the storage as they were.
C26_SnapshotsReadOnly ==
    [][(ret' # ret /\ ret' \in {Snapshot, EmptyDict})
          => /\ pc' = pc
             /\ UNCHANGED <<regVars, handles, lock, dbVars>>]_vars

\* A snapshot was returned while a Device Client call of the data-collection
\* worker was in flight and a session was registered.
C26_Witness ==
    /\ ret = Snapshot
    /\ InCall("data")
    /\ \E m \in Macs : InRegistry(m)

\* C27: a step of the data-collection worker or of the heart-rate logger
\* worker that writes a battery sample of value v for ring r leaves v as the
\* cached battery level of r's Device Record.
C27_BatteryCacheFollows ==
    [][\A r \in RingIds, v \in BatteryLevels :
          (/\ pc["data"] = "battery" \/ pc["hr"] = "h_battery"
           /\ samples' = add_sample(samples, r, "battery", v)
           /\ samples' # samples)
              => db_rings'[r].battery_level = v]_vars

\* C28: while the manager is running, a data-collection iteration ends
\* without a connection attempt only for rings that are in the registry.
C28_AttemptEachIteration ==
    [][(/\ running /\ running'
        /\ pc["data"] \notin {"off", "loop"}
        /\ pc'["data"] = "loop")
          => \A i \in 1..Len(todo["data"]) :
                InRegistry(MacOf(todo["data"][i]))]_vars

\* C29: the scanner worker ends only when the manager is not running, and
\* after a scan whose devices it fails to process it starts another scan
\* unless the manager is stopped.
C29_ScannerSurvivesFailure ==
    /\ [](pc["scan"] = "done" => ~running)
    /\ (pc["scan"] = "devices" /\ todo["scan"] # <<>> /\ running)
          ~> (pc["scan"] = "scanning" \/ ~running)

\* The worker is scanning again with the manager running, after a scan that
\* returned devices (on which it failed).
C29_Witness ==
    /\ running
    /\ pc["scan"] = "scanning"
    /\ todo["scan"] # <<>>

\* C30: once the manager is stopped, a worker at its loop test starts no
\* further iteration, and both workers terminate.
C30_WorkersTerminate ==
    /\ [][\A t \in {"data", "scan"} :
             (~running /\ pc[t] = "loop") => pc'[t] \in {"loop", "done"}]_vars
    /\ (~running /\ pc["data"] # "off")
          ~> (pc["data"] = "done" /\ pc["scan"] = "done")

\* Both workers have ended after a stop that came while a session was
\* registered.
C30_Witness ==
    /\ ~running
    /\ pc["data"] = "done" /\ pc["scan"] = "done"
    /\ \E m \in Macs : InRegistry(m)

(***************************************************************************)
(* Claims on the scan, on removal and connection races, on the workers'    *)
(* life cycle, on the device records and on start-up.                      *)
(***************************************************************************)
\* The name holds c-o-l-m-i, in either case, at some position.
C31_Matches(name) ==
    \E i \in 1..Len(name) :
        /\ i + 4 <= Len(name)
        /\ name[i] \in {"c", "C"} /\ name[i + 1] \in {"o", "O"}
        /\ name[i + 2] \in {"l", "L"} /\ name[i + 3] \in {"m", "M"}
        /\ name[i + 4] \in {"i", "I"}

\* C31: scan_for_devices runs its strategies in the order Bleak, hcitool,
\* bluetoothctl; hcitool has run only if Bleak returned no device, and
\* bluetoothctl only if Bleak and hcitool both returned none; the list the
\* call returns holds only devices whose name matches the ring pattern,
\* and every device of a strategy that matches it.
C31_StrategiesInOrder ==
    /\ \E n \in 0..3 :
          scan_call.ran = SubSeq(<<"bleak", "hcitool", "bluetoothctl">>, 1, n)
    /\ Len(scan_call.ran) >= 2 => scan_call.bleak_devices = <<>>
    /\ Len(scan_call.ran) = 3 => scan_call.hcitool_devices = <<>>
    /\ scan_call.pc = "done" =>
          /\ \A i \in 1..Len(scan_call.colmi_devices) :
                C31_Matches(scan_call.colmi_devices[i].name)
          /\ \A i \in 1..Len(scan_call.all_devices) :
                C31_Matches(scan_call.all_devices[i].name) =>
                   \E j \in 1..Len(scan_call.colmi_devices) :
                      scan_call.colmi_devices[j] = scan_call.all_devices[i]

\* All three strategies ran and the last one found a ring among others.
C31_Witness ==
    /\ scan_call.pc = "done"
    /\ Len(scan_call.ran) = 3
    /\ scan_call.colmi_devices # <<>>
    /\ Len(scan_call.colmi_devices) < Len(scan_call.all_devices)

\* C32: scan_for_devices never raises: a strategy that failed contributes
\* no device, and the call goes on to return a list, empty when nothing
\* was found.
C32_ScanNeverRaises ==
    /\ scan_call.pc # "raised"
    /\ "bleak" \in scan_call.failed => scan_call.bleak_devices = <<>>
    /\ "hcitool" \in scan_call.failed => scan_call.hcitool_devices = <<>>
    /\ "bluetoothctl" \in scan_call.failed =>
          scan_call.bluetoothctl_devices = <<>>
    /\ (scan_call.pc = "done" /\ scan_call.all_devices = <<>>) =>
          scan_call.colmi_devices = <<>>

\* Every strategy failed and the call returned the empty list.
C32_Witness ==
    /\ scan_call.pc = "done"
    /\ scan_call.failed = {"bleak", "hcitool", "bluetoothctl"}
    /\ scan_call.colmi_devices = <<>>

\* C33: every stored telemetry sample belongs to a device record that
\* exists, whatever the interleaving of remove_ring with the workers'
\* polling iterations.
C33_SamplesHaveRecord ==
    \A x \in BagToSet(samples) : db_rings[x.ring].present

\* C34: once remove_ring has deleted a device record (and returned True),
\* no step puts a session for that address into the registry while the
\* record stays deleted, also when a worker had begun to connect before.
C34_NoSessionAfterRemoval ==
    [][\A r \in RingIds :
          (~db_rings[r].present /\ ~db_rings'[r].present
             /\ ~InRegistry(MacOf(r)))
          => ~InRegistry(MacOf(r))']_vars

\* C35: per address at most one Device Client object is connected, and it
\* is the one the registry holds; no step replaces a registry entry whose
\* client is connected by another client, which would leave the first one
\* connected and out of the registry's reach.
C35_OneConnectedClient ==
    /\ [](\A h \in HandleIds :
            (handles[h].kind # "none" /\ handles[h].connected)
            => clients[handles[h].mac] = h)
    /\ [][\A m \in Macs :
            (InRegistry(m) /\ handles[clients[m]].connected)
            => clients'[m] \in {0, clients[m]}]_vars

\* C36: after any sequence of start() and stop(), at most one scanner
\* worker and at most one data worker are inside a loop iteration at the
\* same time, and at most one thread of each kind is alive: start() on a
\* running manager creates none, and a worker of an earlier start() is not
\* left running beside the new one.
C36_OneWorkerOfEachKind ==
    \A target \in {"_scanner_loop", "_data_collection_loop"} :
        /\ Cardinality({i \in ThreadIds : threads[i].target = target
                                           /\ threads[i].pc = "body"}) <= 1
        /\ Cardinality({i \in ThreadIds : threads[i].target = target}) <= 1

\* C37: an address is in the registry only if connect() on the stored
\* client has completed successfully and the client has not been
\* disconnected since.
C37_RegistryHoldsConnected ==
    \A m \in Macs : InRegistry(m) => handles[clients[m]].connected

\* C38: the rings table holds at most one row per address, and a
\* registration call (add_ring, add_or_update_ring) for an address that
\* had a row when the call began returns the id of that row, whichever
\* caller made it and whatever the other caller does meanwhile.
C38_OneRecordPerAddress ==
    /\ \A x, y \in rings_table.rows :
          x.mac_address = y.mac_address => x = y
    /\ \A t \in Registrars :
          (reg_call[t].pc = "idle" /\ reg_call[t].known # 0)
          => reg_call[t].result = reg_call[t].known

\* The scanner found no row, the presentation layer then registered the
\* address, and the scanner's add_ring returned the id of that row.
C38_Witness ==
    /\ reg_call["scan"].pc = "idle" /\ reg_call["scan"].op = "add_ring"
    /\ reg_call["scan"].known # 0
    /\ reg_call["scan"].result = reg_call["scan"].known
    /\ reg_call["web"].result = reg_call["scan"].result
    /\ Cardinality(rings_table.rows) = 3

\* C39: when the storage cannot be initialised the constructor of the
\* manager raises and no worker is ever started; once the workers run, a
\* worker leaves its loop only at the loop test of a stopped manager, so
\* a storage or device failure inside an iteration never ends it.
C39_FailuresRecovered ==
    /\ [](manager # "constructed"
            => ~running /\ pc["data"] = "off" /\ pc["scan"] = "off")
    /\ [][\A t \in {"data", "scan"} :
            (pc[t] # "done" /\ pc'[t] = "done")
            => (pc[t] = "loop" /\ ~running)]_vars

\* The data worker is inside an iteration after the 10-second sleep of its
\* error handler, which alone leaves a remaining delay that is no multiple
\* of SCAN_INTERVAL.
C39_Witness ==
    /\ manager = "constructed" /\ running
    /\ pc["data"] \notin {"off", "loop", "done"}
    /\ \E m \in Macs : cooldown[m] % SCAN_INTERVAL = ErrorDelay

====
